---- MODULE Spec2Model ----
(***************************************************************************)
(* Data-loss detection and backup-reminder logic of the DataLossWarning    *)
(* component (src/src/components/DataLossWarning.tsx).                     *)
(*                                                                         *)
(* The browser's key-value store is modelled key by key.  A stored value   *)
(* is modelled by what the code reads from it:                             *)
(*   auth_users       absent, a string JSON.parse rejects, or a list of    *)
(*                    account roles (the only field the code reads);       *)
(*   snooker_settings absent, a string JSON.parse rejects, or an object    *)
(*                    with its customers count (0 when it has no list);    *)
(*   snooker_sales_transactions   present or not;                          *)
(*   last_backup_date absent, a string Date cannot parse (NaN), or a time; *)
(*   snooker_last_backup_warning  absent or epoch millis;                  *)
(*   snooker_data_fingerprint     absent or fp-<users>-<customers>-<now>.  *)
(* Times are epoch milliseconds.                                           *)
(***************************************************************************)
EXTENDS Integers, Sequences, FiniteSets, TLC

VARIABLES
    fingerprint,        \* localStorage[DATA_FINGERPRINT_KEY]: <<>> or <<users, customers, t>>
    authUsers,          \* localStorage['auth_users']
    settings,           \* localStorage['snooker_settings']
    transactions,       \* localStorage['snooker_sales_transactions'] is set
    lastBackupDate,     \* localStorage['last_backup_date']
    lastWarning,        \* localStorage[LAST_BACKUP_WARNING_KEY]: <<>> or <<t>>
    now,                \* Date.now()
    phase,              \* "unmounted", "mounted", or "crashed" (the mount effect threw)
    showDataLossModal,  \* useState, line 110
    showBackupReminder, \* useState, line 111
    dataLossInfo,       \* useState, line 112
    remindEvaluated,    \* the last mount called shouldShowBackupReminder
    hadFp,              \* the signature key was set when the last mount began
    lastAction,         \* the component step taken last, "env" after any other step
    pristine,           \* no key has been written by the host since the fresh install
    ticks,              \* number of clock advances so far
    ret                 \* the function called last and what it returned (SpecFn)

store == <<fingerprint, authUsers, settings, transactions, lastBackupDate, lastWarning>>
hostKeys == <<authUsers, settings, transactions, lastBackupDate>>
ui == <<phase, showDataLossModal, showBackupReminder, dataLossInfo, remindEvaluated, hadFp>>
vars == <<store, now, ui, lastAction, pristine, ticks, ret>>

\* ---- program constants ----
WARNING_INTERVAL == 3 * 24 * 60 * 60 * 1000
MS_PER_DAY == 1000 * 60 * 60 * 24
RECENT_BACKUP_DAYS == 3
DEFAULT_CUSTOMERS == 6
SUPERADMIN_ONLY == 1

\* ---- bounds ----
MaxUsers == 2
MaxTicks == 2

\* ---- value sets ----
Absent == <<>>
Roles == {"owner", "superadmin"}
\* account lists up to order: the code reads only the length and the roles
RoleLists == {r \in UNION {[1..n -> Roles] : n \in 0..MaxUsers} :
                  \A i \in 1..(Len(r) - 1) : r[i] = "owner" => r[i + 1] = "owner"}
AuthUsersValues ==
    {[kind |-> "absent", roles |-> <<>>], [kind |-> "unparsable", roles |-> <<>>]}
    \cup {[kind |-> "list", roles |-> r] : r \in RoleLists}
CustomerCounts == {0, DEFAULT_CUSTOMERS, DEFAULT_CUSTOMERS + 1}
SettingsValues ==
    {[kind |-> "absent", customers |-> 0], [kind |-> "unparsable", customers |-> 0]}
    \cup {[kind |-> "object", customers |-> c] : c \in CustomerCounts}
\* the instants at which steps happen: 0, 1, 3d, 3d + 1, 6d, ... so that two of
\* them lie 1 ms, 3 days less 1 ms, and exactly 3 days apart
Instant(k) == (k \div 2) * WARNING_INTERVAL + (k % 2)
Instants == {Instant(k) : k \in 0..MaxTicks}
BackupDateValues(t) ==
    {[kind |-> "absent", t |-> 0], [kind |-> "invalid", t |-> 0]}
    \cup {[kind |-> "date", t |-> b] : b \in {i \in Instants : i <= t}}
NoLoss == [hasDataLoss |-> FALSE, hadData |-> FALSE]
NoCall == [op |-> "none", val |-> <<>>]

\* variant: the customers threshold compared with >= instead of >
generateDataFingerprint_SeedCountSigns ==
    IF authUsers.kind = "absent" /\ settings.kind = "absent" THEN Absent
    ELSE IF authUsers.kind = "unparsable" \/ settings.kind = "unparsable"
    THEN Absent
    ELSE LET users == authUsers.roles
             customers == settings.customers
         IN  IF \/ \E i \in 1..Len(users) : users[i] = "owner"
                \/ Len(users) > SUPERADMIN_ONLY
                \/ customers >= DEFAULT_CUSTOMERS
                \/ transactions
             THEN <<Len(users), customers, now>>
             ELSE Absent

\* variant: a settings string that fails to parse is taken as an empty object
generateDataFingerprint_BadSettingsAsEmpty ==
    IF authUsers.kind = "absent" /\ settings.kind = "absent" THEN Absent
    ELSE IF authUsers.kind = "unparsable"
    THEN Absent
    ELSE LET users == authUsers.roles
             customers == settings.customers
         IN  IF \/ \E i \in 1..Len(users) : users[i] = "owner"
                \/ Len(users) > SUPERADMIN_ONLY
                \/ customers > DEFAULT_CUSTOMERS
                \/ transactions
             THEN <<Len(users), customers, now>>
             ELSE Absent

\* variant: only an owner account counts as real data
generateDataFingerprint_OwnerOnly ==
    IF authUsers.kind = "absent" /\ settings.kind = "absent" THEN Absent
    ELSE IF authUsers.kind = "unparsable" \/ settings.kind = "unparsable"
    THEN Absent
    ELSE LET users == authUsers.roles
         IN  IF \E i \in 1..Len(users) : users[i] = "owner"
             THEN <<Len(users), settings.customers, now>>
             ELSE Absent

\* ---- generateDataFingerprint, lines 17-44 ----
generateDataFingerprint ==
    IF authUsers.kind = "absent" /\ settings.kind = "absent" THEN Absent
    ELSE IF authUsers.kind = "unparsable" \/ settings.kind = "unparsable"
    THEN Absent     \* JSON.parse throws inside the try; the catch falls to return null
    ELSE LET users == authUsers.roles
             customers == settings.customers
             hasCustomUsers == Len(users) > SUPERADMIN_ONLY
             hasOwner == \E i \in 1..Len(users) : users[i] = "owner"
             hasCustomCustomers == customers > DEFAULT_CUSTOMERS
             hasTransactions == transactions
         IN  IF hasOwner \/ hasCustomUsers \/ hasCustomCustomers \/ hasTransactions
             THEN <<Len(users), customers, now>>
             ELSE Absent

\* variant: the early return for a missing signature is left out
checkForDataLoss_NoEarlyReturn ==
    IF authUsers.kind = "unparsable"
    THEN [threw |-> TRUE, hasDataLoss |-> FALSE, hadData |-> FALSE]
    ELSE IF ~(\E i \in 1..Len(authUsers.roles) : authUsers.roles[i] = "owner")
    THEN [threw |-> FALSE, hasDataLoss |-> TRUE, hadData |-> TRUE]
    ELSE [threw |-> FALSE, hasDataLoss |-> FALSE, hadData |-> TRUE]

\* variant: loss is inferred from an empty account list, not from a missing owner
checkForDataLoss_EmptyListIsLoss ==
    IF fingerprint = Absent
    THEN [threw |-> FALSE, hasDataLoss |-> FALSE, hadData |-> FALSE]
    ELSE IF authUsers.kind = "unparsable"
    THEN [threw |-> TRUE, hasDataLoss |-> FALSE, hadData |-> FALSE]
    ELSE IF Len(authUsers.roles) = 0
    THEN [threw |-> FALSE, hasDataLoss |-> TRUE, hadData |-> TRUE]
    ELSE [threw |-> FALSE, hasDataLoss |-> FALSE, hadData |-> TRUE]

\* variant: the loss test also asks that no transactions are stored
checkForDataLoss_ReadsTransactions ==
    IF fingerprint = Absent
    THEN [threw |-> FALSE, hasDataLoss |-> FALSE, hadData |-> FALSE]
    ELSE IF authUsers.kind = "unparsable"
    THEN [threw |-> TRUE, hasDataLoss |-> FALSE, hadData |-> FALSE]
    ELSE LET users == authUsers.roles
             hasOwner == \E i \in 1..Len(users) : users[i] = "owner"
         IN  IF ~hasOwner /\ ~transactions
             THEN [threw |-> FALSE, hasDataLoss |-> TRUE, hadData |-> TRUE]
             ELSE [threw |-> FALSE, hasDataLoss |-> FALSE, hadData |-> TRUE]

\* ---- checkForDataLoss, lines 49-69; threw: JSON.parse raised (no try here) ----
checkForDataLoss ==
    IF fingerprint = Absent
    THEN [threw |-> FALSE, hasDataLoss |-> FALSE, hadData |-> FALSE]
    ELSE IF authUsers.kind = "unparsable"
    THEN [threw |-> TRUE, hasDataLoss |-> FALSE, hadData |-> FALSE]
    ELSE LET users == authUsers.roles
             hasOwner == \E i \in 1..Len(users) : users[i] = "owner"
         IN  IF ~hasOwner
             THEN [threw |-> FALSE, hasDataLoss |-> TRUE, hadData |-> TRUE]
             ELSE [threw |-> FALSE, hasDataLoss |-> FALSE, hadData |-> TRUE]

\* variant: a signature is written only when none is stored yet
saveDataFingerprint_OnlyWhenUnset ==
    LET fp == generateDataFingerprint
    IN  fingerprint' = IF fp # Absent /\ fingerprint = Absent THEN fp ELSE fingerprint

\* variant: an absent signature removes the stored one
saveDataFingerprint_RemovesWhenAbsent ==
    fingerprint' = generateDataFingerprint

\* ---- saveDataFingerprint, lines 74-79 ----
saveDataFingerprint ==
    LET fp == generateDataFingerprint
    IN  fingerprint' = IF fp # Absent THEN fp ELSE fingerprint

\* variant: the final guard on data worth protecting is left out
shouldShowBackupReminder_NoDataGuard ==
    IF /\ lastBackupDate.kind = "date"
       /\ now - lastBackupDate.t < RECENT_BACKUP_DAYS * MS_PER_DAY
    THEN FALSE
    ELSE IF lastWarning # Absent /\ now - lastWarning[1] < WARNING_INTERVAL
    THEN FALSE
    ELSE TRUE

\* variant: the elapsed milliseconds are compared with 3 without converting to days
shouldShowBackupReminder_MillisAsDays ==
    IF /\ lastBackupDate.kind = "date"
       /\ now - lastBackupDate.t < RECENT_BACKUP_DAYS
    THEN FALSE
    ELSE IF lastWarning # Absent /\ now - lastWarning[1] < WARNING_INTERVAL
    THEN FALSE
    ELSE generateDataFingerprint # Absent

\* variant: the cooldown test is an else-if of the backup test
shouldShowBackupReminder_CooldownElseIf ==
    IF lastBackupDate.kind # "absent"
    THEN IF /\ lastBackupDate.kind = "date"
            /\ now - lastBackupDate.t < RECENT_BACKUP_DAYS * MS_PER_DAY
         THEN FALSE
         ELSE generateDataFingerprint # Absent
    ELSE IF lastWarning # Absent /\ now - lastWarning[1] < WARNING_INTERVAL
    THEN FALSE
    ELSE generateDataFingerprint # Absent

\* variant: the cooldown compared with <= instead of <
shouldShowBackupReminder_CooldownInclusive ==
    IF /\ lastBackupDate.kind = "date"
       /\ now - lastBackupDate.t < RECENT_BACKUP_DAYS * MS_PER_DAY
    THEN FALSE
    ELSE IF lastWarning # Absent /\ now - lastWarning[1] <= WARNING_INTERVAL
    THEN FALSE
    ELSE generateDataFingerprint # Absent

\* variant: the cooldown interval taken in seconds instead of milliseconds
shouldShowBackupReminder_IntervalInSeconds ==
    IF /\ lastBackupDate.kind = "date"
       /\ now - lastBackupDate.t < RECENT_BACKUP_DAYS * MS_PER_DAY
    THEN FALSE
    ELSE IF lastWarning # Absent /\ now - lastWarning[1] < WARNING_INTERVAL \div 1000
    THEN FALSE
    ELSE generateDataFingerprint # Absent

\* ---- shouldShowBackupReminder, lines 84-107 ----
\* daysSinceBackup < 3 is compared without the division:
\* (now - t) / MS_PER_DAY < 3  iff  now - t < 3 * MS_PER_DAY.  An unparsable
\* date gives NaN, and NaN < 3 is false.
shouldShowBackupReminder ==
    IF /\ lastBackupDate.kind = "date"
       /\ now - lastBackupDate.t < RECENT_BACKUP_DAYS * MS_PER_DAY
    THEN FALSE
    ELSE IF lastWarning # Absent /\ now - lastWarning[1] < WARNING_INTERVAL
    THEN FALSE
    ELSE generateDataFingerprint # Absent

\* ---- render, lines 147-236 ----
ModalVisible == phase = "mounted" /\ showDataLossModal /\ dataLossInfo.hasDataLoss
BannerVisible == phase = "mounted" /\ ~ModalVisible /\ showBackupReminder

\* ---- state after construction: a fresh install, component not yet mounted ----
Init ==
    /\ fingerprint = Absent
    /\ authUsers = [kind |-> "absent", roles |-> <<>>]
    /\ settings = [kind |-> "absent", customers |-> 0]
    /\ transactions = FALSE
    /\ lastBackupDate = [kind |-> "absent", t |-> 0]
    /\ lastWarning = Absent
    /\ now = 0
    /\ phase = "unmounted"
    /\ showDataLossModal = FALSE
    /\ showBackupReminder = FALSE
    /\ dataLossInfo = NoLoss
    /\ remindEvaluated = FALSE
    /\ hadFp = FALSE
    /\ lastAction = "env"
    /\ pristine = TRUE
    /\ ticks = 0
    /\ ret = NoCall

\* variant: a second if instead of else-if
reminderBranch_Always(lossCheck) == TRUE

\* ---- lines 119-121: the reminder is looked at only in the else branch ----
reminderBranch(lossCheck) == ~lossCheck.hasDataLoss

\* variant: the signature is saved first and the loss check reads the saved one
Mount_SaveBeforeCheck ==
    LET gen == generateDataFingerprint
        saved == IF gen # Absent THEN gen ELSE fingerprint
        lossCheck ==
            IF saved = Absent
            THEN [threw |-> FALSE, hasDataLoss |-> FALSE, hadData |-> FALSE]
            ELSE IF authUsers.kind = "unparsable"
            THEN [threw |-> TRUE, hasDataLoss |-> FALSE, hadData |-> FALSE]
            ELSE IF \E i \in 1..Len(authUsers.roles) : authUsers.roles[i] = "owner"
            THEN [threw |-> FALSE, hasDataLoss |-> FALSE, hadData |-> TRUE]
            ELSE [threw |-> FALSE, hasDataLoss |-> TRUE, hadData |-> TRUE]
    IN  /\ fingerprint' = saved
        /\ IF lossCheck.threw
           THEN /\ phase' = "crashed"
                /\ dataLossInfo' = NoLoss
                /\ showDataLossModal' = FALSE
                /\ showBackupReminder' = FALSE
                /\ remindEvaluated' = FALSE
           ELSE /\ phase' = "mounted"
                /\ dataLossInfo' = [hasDataLoss |-> lossCheck.hasDataLoss,
                                    hadData |-> lossCheck.hadData]
                /\ showDataLossModal' = lossCheck.hasDataLoss
                /\ remindEvaluated' = reminderBranch(lossCheck)
                /\ showBackupReminder' =
                       (reminderBranch(lossCheck) /\ shouldShowBackupReminder)
        /\ hadFp' = (fingerprint # Absent)
        /\ lastAction' = "Mount"
        /\ ret' = NoCall
        /\ UNCHANGED <<hostKeys, lastWarning, now, pristine, ticks>>

\* ---- a page load: fresh component state, then the mount effect, lines 110-128 ----
Mount ==
    LET lossCheck == checkForDataLoss
    IN  /\ IF lossCheck.threw
           THEN \* the effect throws at line 116: no state is set, nothing is saved,
                \* and React unmounts the tree of the uncaught error
                /\ phase' = "crashed"
                /\ dataLossInfo' = NoLoss
                /\ showDataLossModal' = FALSE
                /\ showBackupReminder' = FALSE
                /\ remindEvaluated' = FALSE
                /\ UNCHANGED fingerprint
           ELSE /\ phase' = "mounted"
                /\ dataLossInfo' = [hasDataLoss |-> lossCheck.hasDataLoss,
                                    hadData |-> lossCheck.hadData]
                /\ showDataLossModal' = lossCheck.hasDataLoss
                /\ remindEvaluated' = reminderBranch(lossCheck)
                /\ showBackupReminder' =
                       (reminderBranch(lossCheck) /\ shouldShowBackupReminder)
                /\ saveDataFingerprint
        /\ hadFp' = (fingerprint # Absent)
        /\ lastAction' = "Mount"
        /\ ret' = NoCall
        /\ UNCHANGED <<hostKeys, lastWarning, now, pristine, ticks>>

\* variant: Start Fresh removes every key the component owns
handleDismissDataLoss_ClearsAllKeys ==
    /\ ModalVisible
    /\ showDataLossModal' = FALSE
    /\ fingerprint' = Absent
    /\ lastWarning' = Absent
    /\ lastAction' = "StartFresh"
    /\ UNCHANGED <<hostKeys, now, phase, showBackupReminder,
                   dataLossInfo, remindEvaluated, hadFp, pristine, ticks, ret>>

\* variant: the modal is hidden but the signature key is not removed
handleDismissDataLoss_KeepsKey ==
    /\ ModalVisible
    /\ showDataLossModal' = FALSE
    /\ lastAction' = "StartFresh"
    /\ UNCHANGED <<store, now, phase, showBackupReminder,
                   dataLossInfo, remindEvaluated, hadFp, pristine, ticks, ret>>

\* ---- handleDismissDataLoss ("Start Fresh"), lines 130-134 ----
handleDismissDataLoss ==
    /\ ModalVisible
    /\ showDataLossModal' = FALSE
    /\ fingerprint' = Absent
    /\ lastAction' = "StartFresh"
    /\ UNCHANGED <<hostKeys, lastWarning, now, phase, showBackupReminder,
                   dataLossInfo, remindEvaluated, hadFp, pristine, ticks, ret>>

\* ---- handleDismissReminder (banner X), lines 136-139 ----
handleDismissReminder ==
    /\ BannerVisible
    /\ showBackupReminder' = FALSE
    /\ lastWarning' = <<now>>
    /\ lastAction' = "DismissReminder"
    /\ UNCHANGED <<fingerprint, hostKeys, now, phase, showDataLossModal,
                   dataLossInfo, remindEvaluated, hadFp, pristine, ticks, ret>>

\* variant: restoring also drops the signature key
handleRestoreClick_ClearsKey(name) ==
    /\ showDataLossModal' = FALSE
    /\ showBackupReminder' = FALSE
    /\ fingerprint' = Absent
    /\ lastAction' = name
    /\ UNCHANGED <<hostKeys, lastWarning, now, phase, dataLossInfo, remindEvaluated,
                   hadFp, pristine, ticks, ret>>

\* variant: the click itself stamps last_backup_date
handleRestoreClick_StampsBackup(name) ==
    /\ showDataLossModal' = FALSE
    /\ showBackupReminder' = FALSE
    /\ lastBackupDate' = [kind |-> "date", t |-> now]
    /\ lastAction' = name
    /\ UNCHANGED <<fingerprint, authUsers, settings, transactions, lastWarning,
                   now, phase, dataLossInfo, remindEvaluated, hadFp,
                   pristine, ticks, ret>>

\* ---- handleRestoreClick, lines 141-145; the host callback opens the host's
\* ---- backup dialog, whose writes are the host steps below ----
handleRestoreClick(name) ==
    /\ showDataLossModal' = FALSE
    /\ showBackupReminder' = FALSE
    /\ lastAction' = name
    /\ UNCHANGED <<store, now, phase, dataLossInfo, remindEvaluated, hadFp,
                   pristine, ticks, ret>>

RestoreBackup == ModalVisible /\ handleRestoreClick("RestoreBackup")
BackupNow == BannerVisible /\ handleRestoreClick("BackupNow")

\* ---- the host application ----
HostFrame == UNCHANGED <<fingerprint, lastWarning, now, ui, ticks, ret>>

HostSetAuthUsers ==
    /\ \E v \in AuthUsersValues : v # authUsers /\ authUsers' = v
    /\ lastAction' = "env" /\ pristine' = FALSE
    /\ HostFrame /\ UNCHANGED <<settings, transactions, lastBackupDate>>

HostSetSettings ==
    /\ \E v \in SettingsValues : v # settings /\ settings' = v
    /\ lastAction' = "env" /\ pristine' = FALSE
    /\ HostFrame /\ UNCHANGED <<authUsers, transactions, lastBackupDate>>

HostSetTransactions ==
    /\ transactions' = ~transactions
    /\ lastAction' = "env" /\ pristine' = FALSE
    /\ HostFrame /\ UNCHANGED <<authUsers, settings, lastBackupDate>>

HostSetLastBackupDate ==
    /\ \E v \in {[kind |-> "date", t |-> now], [kind |-> "invalid", t |-> 0]} :
           v # lastBackupDate /\ lastBackupDate' = v
    /\ lastAction' = "env" /\ pristine' = FALSE
    /\ HostFrame /\ UNCHANGED <<authUsers, settings, transactions>>

\* the exported saveDataFingerprint(), called by the host after a data change
HostSaveFingerprint ==
    /\ saveDataFingerprint
    /\ lastAction' = "env" /\ pristine' = FALSE
    /\ UNCHANGED <<hostKeys, lastWarning, now, ui, ticks, ret>>

\* ---- the clock ----
Tick ==
    /\ ticks < MaxTicks
    /\ ticks' = ticks + 1
    /\ now' = Instant(ticks + 1)
    /\ lastAction' = "env"
    /\ UNCHANGED <<store, ui, pristine, ret>>

Next ==
    \/ Mount
    \/ handleDismissDataLoss
    \/ handleDismissReminder
    \/ RestoreBackup
    \/ BackupNow
    \/ HostSetAuthUsers
    \/ HostSetSettings
    \/ HostSetTransactions
    \/ HostSetLastBackupDate
    \/ HostSaveFingerprint
    \/ Tick

Spec == Init /\ [][Next]_vars

\* ---- the functions applied to every storage state ----
\* Any contents of the store can be met at a load: the host owns four of the
\* keys and the page's scripts can set the other two.
FnFingerprints == {Absent} \cup {<<n, 0, 0>> : n \in 1..MaxUsers}

InitFn ==
    /\ fingerprint \in FnFingerprints
    /\ authUsers \in AuthUsersValues
    /\ settings \in SettingsValues
    /\ transactions \in BOOLEAN
    /\ ticks \in 0..MaxTicks
    /\ now = Instant(ticks)
    /\ lastBackupDate \in BackupDateValues(now)
    /\ lastWarning \in {Absent} \cup {<<t>> : t \in {i \in Instants : i <= now}}
    /\ phase = "unmounted"
    /\ showDataLossModal = FALSE
    /\ showBackupReminder = FALSE
    /\ dataLossInfo = NoLoss
    /\ remindEvaluated = FALSE
    /\ hadFp = FALSE
    /\ lastAction = "env"
    /\ pristine = FALSE
    /\ ret = NoCall

CallFrame == lastAction' = "env" /\ UNCHANGED <<store, now, ui, pristine, ticks>>

CallGenerate ==
    /\ ret' = [op |-> "generate", val |-> generateDataFingerprint]
    /\ CallFrame

CallCheck ==
    /\ ret' = [op |-> "check", val |-> checkForDataLoss]
    /\ CallFrame

CallShouldRemind ==
    /\ ret' = [op |-> "shouldRemind", val |-> shouldShowBackupReminder]
    /\ CallFrame

NextFn ==
    \/ CallGenerate
    \/ CallCheck
    \/ CallShouldRemind
    \/ Mount

SpecFn == InitFn /\ [][NextFn]_vars

\* ---- predicates of the store used by the properties ----
ParsableAccounts == authUsers.kind \in {"absent", "list"}
HasOwnerAccount == \E i \in 1..Len(authUsers.roles) : authUsers.roles[i] = "owner"
AccountCount == Len(authUsers.roles)
BackupRecent ==
    /\ lastBackupDate.kind = "date"
    /\ now - lastBackupDate.t < 3 * 24 * 60 * 60 * 1000
ReminderRecent ==
    /\ lastWarning # Absent
    /\ now - lastWarning[1] < 3 * 24 * 60 * 60 * 1000
ComponentActions == {"Mount", "StartFresh", "RestoreBackup", "DismissReminder", "BackupNow"}

\* ---- properties ----

\* C1: after a load that began with the signature key set and no owner account
\* in a parsable auth_users, the loss modal is visible and the banner is not;
\* after Start Fresh the signature key is gone and neither surface is visible.
C1_LossModalThenStartFresh ==
    /\ (lastAction = "Mount" /\ hadFp /\ ParsableAccounts /\ ~HasOwnerAccount)
           => (ModalVisible /\ ~BannerVisible)
    /\ lastAction = "StartFresh"
           => (fingerprint = Absent /\ ~ModalVisible /\ ~BannerVisible)

C1_Witness ==
    /\ lastAction = "StartFresh"
    /\ authUsers = [kind |-> "list", roles |-> <<"superadmin">>]
    /\ dataLossInfo.hasDataLoss
    /\ fingerprint = Absent
    /\ phase = "mounted" /\ ~showDataLossModal

\* C2: with no signature key set, checkForDataLoss returns
\* {hasDataLoss: false, hadData: false} whatever the other keys hold.
C2_NoSignatureNoLoss ==
    (ret.op = "check" /\ fingerprint = Absent)
        => ret.val = [threw |-> FALSE, hasDataLoss |-> FALSE, hadData |-> FALSE]

C2_Witness ==
    /\ ret.op = "check"
    /\ fingerprint = Absent
    /\ authUsers = [kind |-> "list", roles |-> <<"superadmin", "superadmin">>]
    /\ transactions
    /\ lastBackupDate.kind = "date"
    /\ ret.val.hasDataLoss = FALSE /\ ret.val.hadData = FALSE

\* C3: with the signature set and auth_users absent or a list, checkForDataLoss
\* returns hadData = true, and hasDataLoss = true exactly when no account has
\* role owner.
C3_LossIffNoOwner ==
    (ret.op = "check" /\ fingerprint # Absent /\ ParsableAccounts)
        => /\ ~ret.val.threw
           /\ ret.val.hadData
           /\ ret.val.hasDataLoss <=> ~HasOwnerAccount

C3_Witness ==
    /\ ret.op = "check"
    /\ fingerprint # Absent
    /\ authUsers = [kind |-> "list", roles |-> <<"superadmin", "owner">>]
    /\ ret.val.hadData /\ ~ret.val.hasDataLoss

\* C4 as stated: a component step changes a set signature only as the save at
\* the end of a mount whose loss check returned hasDataLoss = false, or as the
\* deletion by Start Fresh.
C4_OnlyCleanLoadOrStartFresh ==
    [][(lastAction' \in ComponentActions /\ fingerprint # Absent
            /\ fingerprint' # fingerprint)
        => \/ /\ lastAction' = "Mount"
              /\ ~checkForDataLoss.threw /\ ~checkForDataLoss.hasDataLoss
              /\ fingerprint' = generateDataFingerprint
           \/ /\ lastAction' = "StartFresh"
              /\ ModalVisible
              /\ fingerprint' = Absent]_vars

\* C4 amended: a component step changes a set signature only as the save at
\* the end of a mount, whichever branch the mount took, or as the deletion by
\* Start Fresh from the loss modal.
C4_OnlyMountSaveOrStartFresh ==
    [][(lastAction' \in ComponentActions /\ fingerprint # Absent
            /\ fingerprint' # fingerprint)
        => \/ /\ lastAction' = "Mount"
              /\ ~checkForDataLoss.threw
              /\ generateDataFingerprint # Absent
              /\ fingerprint' = generateDataFingerprint
           \/ /\ lastAction' = "StartFresh"
              /\ ModalVisible
              /\ fingerprint' = Absent]_vars

C4_Witness ==
    /\ lastAction = "Mount"
    /\ hadFp
    /\ dataLossInfo.hasDataLoss
    /\ now > 0
    /\ fingerprint = <<AccountCount, settings.customers, now>>

\* C5: with auth_users unparsable, checkForDataLoss raises nothing and returns
\* {true, true} when a signature is set and {false, false} when not, and a
\* mount that began with a signature shows the loss modal.
C5_UnparsableAccountsAsNoOwner ==
    /\ (ret.op = "check" /\ authUsers.kind = "unparsable")
           => /\ ~ret.val.threw
              /\ ret.val.hasDataLoss = (fingerprint # Absent)
              /\ ret.val.hadData = (fingerprint # Absent)
    /\ (lastAction = "Mount" /\ authUsers.kind = "unparsable" /\ hadFp)
           => ModalVisible

\* C6: the modal and the banner are never both up; the banner is up only after
\* a mount whose loss check found no loss and that evaluated the reminder; a
\* mount that found loss neither evaluated the reminder nor set the banner flag.
C6_OneSurfaceModalFirst ==
    /\ ~(ModalVisible /\ BannerVisible)
    /\ BannerVisible => (remindEvaluated /\ ~dataLossInfo.hasDataLoss)
    /\ dataLossInfo.hasDataLoss => (~remindEvaluated /\ ~showBackupReminder)

C6_Witness ==
    /\ lastAction = "Mount"
    /\ BannerVisible
    /\ hadFp

\* C7: from a fresh install, and for as long as the host has written no key,
\* no load shows the modal or the banner and no signature is persisted.
C7_FreshInstallStaysQuiet ==
    pristine => /\ fingerprint = Absent
                /\ lastWarning = Absent
                /\ ~ModalVisible
                /\ ~BannerVisible

C7_Witness ==
    /\ pristine
    /\ lastAction = "Mount"
    /\ phase = "mounted"
    /\ now > 0

\* C8: generateDataFingerprint returns absent when auth_users and
\* snooker_settings are both unset; otherwise, for parsable records, it returns
\* a signature exactly when there is more than one account, or an owner
\* account, or more than 6 customers, or a transactions record.
C8_SignatureIffSignal ==
    ret.op = "generate"
        => /\ (authUsers.kind = "absent" /\ settings.kind = "absent")
                  => ret.val = Absent
           /\ (/\ ~(authUsers.kind = "absent" /\ settings.kind = "absent")
               /\ ParsableAccounts
               /\ settings.kind # "unparsable")
                  => (ret.val # Absent <=> \/ AccountCount > 1
                                           \/ HasOwnerAccount
                                           \/ settings.customers > 6
                                           \/ transactions)

C8_Witness ==
    /\ ret.op = "generate"
    /\ settings = [kind |-> "object", customers |-> 7]
    /\ AccountCount = 0
    /\ ~transactions
    /\ ret.val = <<0, 7, now>>

\* C9: when last_backup_date is less than 3 days before now,
\* shouldShowBackupReminder returns false, and a mount shows no banner.
C9_RecentBackupNoReminder ==
    /\ (ret.op = "shouldRemind" /\ BackupRecent) => ret.val = FALSE
    /\ (lastAction = "Mount" /\ BackupRecent)
           => (~showBackupReminder /\ ~BannerVisible)

C9_Witness ==
    /\ ret.op = "shouldRemind"
    /\ BackupRecent
    /\ now - lastBackupDate.t = 3 * 24 * 60 * 60 * 1000 - 1
    /\ lastWarning = Absent
    /\ generateDataFingerprint # Absent
    /\ ret.val = FALSE

\* C10: when the last reminder was dismissed less than 3 days before now,
\* shouldShowBackupReminder returns false, also with no recent backup and with
\* data that would be signed.
C10_RecentReminderNoReminder ==
    (ret.op = "shouldRemind" /\ ReminderRecent) => ret.val = FALSE

C10_Witness ==
    /\ ret.op = "shouldRemind"
    /\ ReminderRecent
    /\ lastBackupDate.kind = "date" /\ ~BackupRecent
    /\ generateDataFingerprint # Absent
    /\ ret.val = FALSE

\* C11: when last_backup_date is unset or at least 3 days old and the reminder
\* timestamp is unset or at least 3 days old (exactly 3 days counting as old),
\* shouldShowBackupReminder returns true exactly when generateDataFingerprint
\* returns a signature; it returns true only with both windows inactive.
BackupWindowOver ==
    \/ lastBackupDate.kind = "absent"
    \/ lastBackupDate.kind = "date" /\ now - lastBackupDate.t >= 3 * 24 * 60 * 60 * 1000
ReminderWindowOver ==
    \/ lastWarning = Absent
    \/ now - lastWarning[1] >= 3 * 24 * 60 * 60 * 1000

C11_ReminderIffDataWhenDue ==
    ret.op = "shouldRemind"
        => /\ (BackupWindowOver /\ ReminderWindowOver)
                  => (ret.val <=> generateDataFingerprint # Absent)
           /\ ret.val => /\ ~BackupRecent
                         /\ ~ReminderRecent
                         /\ generateDataFingerprint # Absent

C11_Witness ==
    /\ ret.op = "shouldRemind"
    /\ lastBackupDate.kind = "date"
    /\ now - lastBackupDate.t = 3 * 24 * 60 * 60 * 1000
    /\ lastWarning # Absent
    /\ now - lastWarning[1] = 3 * 24 * 60 * 60 * 1000
    /\ ret.val = TRUE

\* C12: at the end of every mount the stored signature is the value
\* generateDataFingerprint computes at that load when that value is not absent,
\* and is what it was before the mount otherwise; a stored signature is never
\* removed by the mount; the surface shown is the one the loss check and the
\* reminder check select on the store as it was before the save.
C12_MountSavesGenerated ==
    [][lastAction' = "Mount"
        => /\ fingerprint' = IF generateDataFingerprint # Absent
                             THEN generateDataFingerprint
                             ELSE fingerprint
           /\ fingerprint # Absent => fingerprint' # Absent
           /\ phase' = "mounted"
                  => /\ ModalVisible' = checkForDataLoss.hasDataLoss
                     /\ BannerVisible' = (~checkForDataLoss.hasDataLoss
                                            /\ shouldShowBackupReminder)]_vars

C12_Witness ==
    /\ lastAction = "Mount"
    /\ hadFp
    /\ dataLossInfo.hasDataLoss
    /\ ModalVisible
    /\ authUsers = [kind |-> "list", roles |-> <<"superadmin">>]
    /\ generateDataFingerprint = Absent
    /\ fingerprint # Absent

\* C13: when auth_users or snooker_settings holds a string that does not parse,
\* generateDataFingerprint returns absent, a mount's save leaves the stored
\* signature as it was, and shouldShowBackupReminder returns false.
UnparsableRecord == authUsers.kind = "unparsable" \/ settings.kind = "unparsable"

C13_UnparsableGivesNoSignature ==
    /\ [](UnparsableRecord
            => /\ ret.op = "generate" => ret.val = Absent
               /\ ret.op = "shouldRemind" => ret.val = FALSE)
    /\ [][(lastAction' = "Mount" /\ UnparsableRecord)
            => fingerprint' = fingerprint]_vars

C13_Witness ==
    /\ ret.op = "shouldRemind"
    /\ settings.kind = "unparsable"
    /\ authUsers = [kind |-> "list", roles |-> <<"superadmin", "owner">>]
    /\ transactions
    /\ BackupWindowOver /\ ReminderWindowOver
    /\ ret.val = FALSE

\* C14: the stored last-backup-warning timestamp only moves forward: once it
\* is set, no step removes it and no step stores a smaller value.
C14_ReminderTimestampForward ==
    [][lastWarning # Absent
         => lastWarning' # Absent /\ lastWarning'[1] >= lastWarning[1]]_vars

\* a dismissal that stored an instant three days or more after the start
C14_Witness ==
    /\ lastAction = "DismissReminder"
    /\ lastWarning = <<now>>
    /\ now >= WARNING_INTERVAL

\* C17: mount, Start Fresh, Restore Backup, reminder dismiss and Backup Now
\* leave auth_users, snooker_settings, snooker_sales_transactions and
\* last_backup_date as they were, only the reminder dismiss changes
\* last-backup-warning, and a step that saves the signature changes no other key.
C17_ComponentWritesOnlyItsKeys ==
    [][/\ lastAction' \in ComponentActions
            => /\ hostKeys' = hostKeys
               /\ lastWarning' # lastWarning => lastAction' = "DismissReminder"
       /\ (lastAction' = "env" /\ fingerprint' # fingerprint)
            => hostKeys' = hostKeys /\ lastWarning' = lastWarning]_vars

C17_Witness ==
    /\ lastAction = "BackupNow"
    /\ lastWarning = Absent
    /\ lastBackupDate.kind = "absent"
    /\ ~BannerVisible

\* ---- an installation whose account list never holds an owner ----
HostSetNonOwnerAccounts == HostSetAuthUsers /\ ~HasOwnerAccount'

NextNoOwner ==
    \/ Mount
    \/ handleDismissDataLoss
    \/ handleDismissReminder
    \/ RestoreBackup
    \/ BackupNow
    \/ HostSetNonOwnerAccounts
    \/ HostSetSettings
    \/ HostSetTransactions
    \/ HostSetLastBackupDate
    \/ HostSaveFingerprint
    \/ Tick

SpecNoOwner == Init /\ [][NextNoOwner]_vars

\* C15: in an installation where no owner account ever exists, a first load
\* that finds no signature but more than 6 customers (or, with one of the two
\* records present, transactions or two accounts) shows no modal and stores a
\* signature, and a load that finds a
\* signature and a well-formed account list reports loss and shows the modal.
C15_NoOwnerStillReportsLoss ==
    /\ ~HasOwnerAccount
    /\ (lastAction = "Mount" /\ ~hadFp)
         => /\ ~ModalVisible /\ ~dataLossInfo.hasDataLoss
            /\ ( /\ ParsableAccounts /\ settings.kind # "unparsable"
                 /\ authUsers.kind # "absent" \/ settings.kind # "absent"
                 /\ \/ settings.customers > DEFAULT_CUSTOMERS
                    \/ transactions
                    \/ AccountCount > SUPERADMIN_ONLY )
                 => fingerprint # Absent
    /\ (lastAction = "Mount" /\ hadFp /\ ParsableAccounts)
         => ModalVisible /\ dataLossInfo.hasDataLoss

\* the second load over unchanged data: seven customers, nothing else
C15_Witness ==
    /\ lastAction = "Mount" /\ hadFp
    /\ ModalVisible /\ dataLossInfo.hasDataLoss
    /\ authUsers.kind = "absent"
    /\ settings = [kind |-> "object", customers |-> 7]
    /\ ~transactions
    /\ fingerprint = <<0, 7, now>>

\* ---- checkForDataLoss() called on one store, then compared with its value on
\* ---- every store the host reaches by writing settings, transactions and the
\* ---- backup date; at: the settings, transactions and backup date of the call
CallCheckAt ==
    /\ ret' = [op |-> "checkAt", val |-> checkForDataLoss,
               at |-> <<settings, transactions, lastBackupDate>>]
    /\ CallFrame

NextDep ==
    \/ CallCheckAt
    \/ HostSetSettings
    \/ HostSetTransactions
    \/ HostSetLastBackupDate
    \/ Tick

SpecDep == InitFn /\ [][NextDep]_vars

\* C16: two stores that agree on the signature and on auth_users give the
\* same checkForDataLoss result, whatever the settings, the transactions and
\* the backup date hold.
C16_CheckReadsOnlySignatureAndAccounts ==
    ret.op = "checkAt" => ret.val = checkForDataLoss

C16_Witness ==
    /\ ret.op = "checkAt"
    /\ ret.val.hasDataLoss
    /\ ret.at[1] # settings /\ ret.at[2] # transactions /\ ret.at[3] # lastBackupDate
    /\ checkForDataLoss.hasDataLoss

\* C18: once the banner was dismissed at instant t, a load before t + 3 days
\* never shows the banner, whatever the backup date and the data are; the
\* banner is on screen only at t + 3 days or later.
C18_NoBannerWithinThreeDaysOfDismiss ==
    /\ (BannerVisible /\ lastWarning # Absent)
         => now - lastWarning[1] >= 3 * 24 * 60 * 60 * 1000
    /\ (lastAction = "Mount" /\ ReminderRecent) => ~BannerVisible

\* a load one millisecond before the three days are over, with data to
\* protect and no backup on record: no banner
C18_Witness ==
    /\ lastAction = "Mount" /\ phase = "mounted"
    /\ lastWarning # Absent
    /\ now - lastWarning[1] = 3 * 24 * 60 * 60 * 1000 - 1
    /\ generateDataFingerprint # Absent
    /\ lastBackupDate.kind = "absent"
    /\ ~dataLossInfo.hasDataLoss
    /\ ~BannerVisible

\* C19: Start Fresh leaves no signature; while none is stored, only a load or
\* the host's own saveDataFingerprint call stores one; and a load that begins
\* with no signature reports no loss and shows no modal, whatever the host
\* data is, because the loss check runs before the load's own save.
C19_NoModalOnLoadAfterStartFresh ==
    [][/\ lastAction' = "StartFresh" => fingerprint' = Absent
       /\ fingerprint = Absent
            => /\ lastAction' = "Mount"
                    => ~ModalVisible' /\ ~dataLossInfo'.hasDataLoss
               /\ fingerprint' # Absent
                    => \/ lastAction' = "Mount"
                       \/ lastAction' = "env" /\ hostKeys' = hostKeys]_vars

\* the load after Start Fresh: no owner in a well-formed list of two accounts,
\* a signature written by this very load, and no modal
C19_Witness ==
    /\ lastAction = "Mount" /\ ~hadFp
    /\ dataLossInfo = NoLoss
    /\ fingerprint = <<2, settings.customers, now>>
    /\ authUsers = [kind |-> "list", roles |-> <<"superadmin", "superadmin">>]
    /\ ~ModalVisible
    /\ checkForDataLoss.hasDataLoss

\* C20: a stored signature is removed by Start Fresh only, and every load that
\* finds a signature and a well-formed account list without an owner reports
\* loss and shows the modal; so after one loss report each later load repeats
\* it until Start Fresh is chosen or an owner account appears.
C20_LossRepeatsUntilStartFresh ==
    [][/\ (fingerprint # Absent /\ lastAction' # "StartFresh")
            => fingerprint' # Absent
       /\ ( /\ fingerprint # Absent /\ ParsableAccounts /\ ~HasOwnerAccount
            /\ lastAction' = "Mount" )
            => ModalVisible' /\ dataLossInfo'.hasDataLoss]_vars

\* a later load on a signature from an earlier instant, with nothing left
\* that would be signed again: the modal is up and the old signature is kept
C20_Witness ==
    /\ lastAction = "Mount" /\ hadFp
    /\ ModalVisible /\ dataLossInfo.hasDataLoss
    /\ generateDataFingerprint = Absent
    /\ fingerprint # Absent /\ fingerprint[3] < now
    /\ authUsers = [kind |-> "list", roles |-> <<"superadmin">>]

====
